---- MODULE Spec2Model ----
(***************************************************************************)
(* Draw and progression engine of the tournament server                    *)
(* (backend/server.py): draw generation for the four competition formats,  *)
(* result recording with winner propagation, and the match life cycle.     *)
(* One competition of one tournament is modelled; the document store is    *)
(* the function `matches` from match id to match document.                 *)
(***************************************************************************)
EXTENDS Integers, Sequences, FiniteSets, TLC

VARIABLES
    competition,   \* the competition document: participant_ids, format, num_groups, status
    matches,       \* db.matches restricted to the competition: id -> match document
    resources,     \* db.resources: resource id -> current_match_id
    idCtr,         \* number of match ids handed out so far (uuid4 never repeats)
    resp,          \* the response of the latest request
    produced,      \* history: ids of the matches built by the latest draw generation
    propagated,    \* history: match id -> number of times its winner was written into its next match
    calls,         \* number of requests served so far
    handlers       \* result handlers in flight: handler -> its position and what it has read

vars == <<competition, matches, resources, idCtr, resp, produced, propagated, calls, handlers>>

----------------------------------------------------------------------------
(* Bounds *)

MaxN == 3          \* participants of the competition in the request-level specification
MaxDrawN == 5      \* participants of the competition in the draw-level specification
MaxCalls == 3      \* requests per behaviour of the request-level specification
MaxSets == 2       \* sets in a submitted scoreline
MaxGroups == 2     \* num_groups of a groups_knockout competition
MaxRating == 1     \* ratings of the participants range over 0..MaxRating

----------------------------------------------------------------------------
(* Values *)

None == 0          \* Python None for ids (participants, matches, resources, seeds, groups)
NoStr == ""        \* an absent Optional[str] status
R1 == 1            \* the one resource (table / court)

FORMATS == {"round_robin", "single_elimination", "double_elimination", "groups_knockout"}
MATCH_STATUSES == {"pending", "scheduled", "live", "completed", "cancelled"}

GrandFinalRound == 999

Max(a, b) == IF a >= b THEN a ELSE b

RECURSIVE Pow2(_)
Pow2(r) == IF r = 0 THEN 1 ELSE 2 * Pow2(r - 1)

\* math.ceil(math.log2(n)): the least r with 2^r >= n
RECURSIVE CeilLog2From(_, _)
CeilLog2From(n, r) == IF Pow2(r) >= n THEN r ELSE CeilLog2From(n, r + 1)
CeilLog2(n) == CeilLog2From(n, 0)

\* rounds = math.ceil(math.log2(n)) if n > 1 else 1
RoundsFor(n) == IF n > 1 THEN CeilLog2(n) ELSE 1

Range(s) == {s[i] : i \in DOMAIN s}

\* the list s without its i-th element
Without(s, i) == SubSeq(s, 1, i - 1) \o SubSeq(s, i + 1, Len(s))

\* every ordering of the elements of the list s (the outcomes of
\* random.shuffle, and the orders a caller can choose)
RECURSIVE Perms(_)
Perms(s) ==
    IF Len(s) = 0 THEN {<<>>}
    ELSE UNION {{<<s[i]>> \o t : t \in Perms(Without(s, i))} : i \in 1..Len(s)}

\* random.shuffle(participants): any ordering of the list
Shuffle(s) == Perms(s)

----------------------------------------------------------------------------
(* Match documents *)

\* the dict literal the generators build; keys a generator leaves out read as
\* None through match.get(...)
NewMatch(id, round, number, group, p1, p2, btype) ==
    [id |-> id,
     round_number |-> round,
     match_number |-> number,
     group_number |-> group,
     participant1_id |-> p1,
     participant2_id |-> p2,
     seed1 |-> None,
     seed2 |-> None,
     winner_id |-> None,
     resource_id |-> None,
     status |-> "pending",
     scores |-> <<>>,
     bracket_type |-> btype,
     next_match_id |-> None,
     referee_access |-> FALSE]

\* "Auto-advance byes": a first-round match with exactly one participant is
\* created completed with that participant as winner
AutoAdvanceBye(m) ==
    IF m.participant2_id = None /\ m.participant1_id # None
    THEN [m EXCEPT !.winner_id = m.participant1_id, !.status = "completed"]
    ELSE IF m.participant1_id = None /\ m.participant2_id # None
    THEN [m EXCEPT !.winner_id = m.participant2_id, !.status = "completed"]
    ELSE m

----------------------------------------------------------------------------
(* Draw generation algorithms.  Each returns the list of match documents;  *)
(* base is the number of ids already handed out, so the k-th new match     *)
(* gets the fresh id base + k.                                             *)

\* the nested loops "for i in range(n): for j in range(i + 1, n)" over one
\* participant list, appending to acc; i and j are 1-based here
RECURSIVE RoundRobinLoop(_, _, _, _, _, _, _, _)
RoundRobinLoop(participants, i, j, base, firstNumber, group, btype, acc) ==
    LET n == Len(participants) IN
    IF i > n THEN acc
    ELSE IF j > n THEN RoundRobinLoop(participants, i + 1, i + 2, base, firstNumber, group, btype, acc)
    ELSE LET match_number == firstNumber + Len(acc)
             match == NewMatch(base + match_number, 1, match_number, group,
                               participants[i], participants[j], btype)
         IN RoundRobinLoop(participants, i, j + 1, base, firstNumber, group, btype, Append(acc, match))

\* variant: the inner loop of the first participant starts at the participant
\* itself (for j in range(i, n))
round_robin_from_own_index(participant_ids, base) ==
    RoundRobinLoop(participant_ids, 1, 1, base, 1, 1, "", <<>>)

\* generate_round_robin_matches(participant_ids, ...)
generate_round_robin_matches(participant_ids, base) ==
    RoundRobinLoop(participant_ids, 1, 2, base, 1, 1, "", <<>>)

\* variant: the pairs 1 v size, 2 v size-1, .. in sequence
seeded_order_folded(size) ==
    [k \in 1..Max(size, 1) |->
        IF k % 2 = 1 THEN (k - 1) \div 2 ELSE size - 1 - ((k - 2) \div 2)]

\* variant: the seeds in sequence (1 v 2, 3 v 4, ...)
seeded_order_in_sequence(size) == [k \in 1..Max(size, 1) |-> k - 1]

\* create_seeded_bracket_order(size): 0-based seed indexes in bracket order
RECURSIVE create_seeded_bracket_order(_)
create_seeded_bracket_order(size) ==
    IF size <= 1 THEN <<0>>
    ELSE IF size = 2 THEN <<0, 1>>
    ELSE LET half == size \div 2
             top_half == create_seeded_bracket_order(half)
             bottom_half == [i \in 1..half |-> size - 1 - top_half[i]]
         IN [k \in 1..(2 * half) |->
                IF k % 2 = 1 THEN top_half[(k + 1) \div 2] ELSE bottom_half[k \div 2]]

\* participants.extend([None] * byes_needed)
PadWithByes(participants, bracket_size) ==
    [i \in 1..Max(bracket_size, Len(participants)) |->
        IF i <= Len(participants) THEN participants[i] ELSE None]

\* variant: no round after the first is created
subsequent_rounds_none(all, prev, round_num, rounds, round_offset, base) == all

\* the "Subsequent rounds" loop shared by both single-elimination
\* generators.  all is the match list built so far, prev the positions in it
\* of the previous round's matches; matches are linked in place.
RECURSIVE SubsequentRounds(_, _, _, _, _, _)
SubsequentRounds(all, prev, round_num, rounds, round_offset, base) ==
    IF round_num > rounds THEN all
    ELSE
      LET count == (Len(prev) + 1) \div 2
          first == Len(all)
          \* the match created at loop index i = 2 * (k - 1)
          created(k) ==
              LET match_number == first + k
                  a == all[prev[2 * k - 1]]
                  hasB == 2 * k <= Len(prev)
                  b == IF hasB THEN all[prev[2 * k]] ELSE a
              IN [NewMatch(base + match_number, round_num + round_offset, match_number,
                           None, None, None, "")
                  EXCEPT !.participant1_id = IF a.winner_id # None THEN a.winner_id ELSE None,
                         !.participant2_id = IF hasB /\ b.winner_id # None THEN b.winner_id ELSE None]
          linked == [x \in 1..Len(all) |->
                       IF \E y \in 1..Len(prev) : prev[y] = x
                       THEN LET y == CHOOSE y \in 1..Len(prev) : prev[y] = x
                            IN [all[x] EXCEPT !.next_match_id = base + first + ((y + 1) \div 2)]
                       ELSE all[x]]
          cur == [k \in 1..count |-> created(k)]
      IN SubsequentRounds(linked \o cur, [k \in 1..count |-> first + k],
                          round_num + 1, rounds, round_offset, base)

\* the "First round" loop: one match per pair of consecutive bracket slots
FirstRound(ordered, seeds, n, round_offset, base) ==
    [k \in 1..((Len(ordered) + 1) \div 2) |->
        LET p1 == ordered[2 * k - 1]
            p2 == IF 2 * k <= Len(ordered) THEN ordered[2 * k] ELSE None
            m == NewMatch(base + k, 1 + round_offset, k, None, p1, p2, "")
            seeded == IF seeds = <<>> THEN m
                      ELSE [m EXCEPT
                              !.seed1 = IF seeds[2 * k - 1] < n THEN seeds[2 * k - 1] + 1 ELSE None,
                              !.seed2 = IF 2 * k <= Len(seeds) /\ seeds[2 * k] < n
                                        THEN seeds[2 * k] + 1 ELSE None]
        IN AutoAdvanceBye(seeded)]

\* generate_single_elimination_seeded: participant_ids is already in seed order
generate_single_elimination_seeded(participant_ids, base, round_offset) ==
    LET n == Len(participant_ids)
        rounds == RoundsFor(n)
        bracket_size == Pow2(rounds)
        participants == PadWithByes(participant_ids, bracket_size)
        seeded_order == create_seeded_bracket_order(Len(participants))
        ordered_participants ==
            [k \in 1..Len(seeded_order) |->
                IF seeded_order[k] < Len(participants) THEN participants[seeded_order[k] + 1] ELSE None]
        first == FirstRound(ordered_participants, seeded_order, n, round_offset, base)
    IN SubsequentRounds(first, [k \in 1..Len(first) |-> k], 2, rounds, round_offset, base)

\* generate_single_elimination_matches after its random.shuffle: shuffled is
\* the outcome of the shuffle; byes are appended after it
single_elimination_of_shuffled(shuffled, base, round_offset) ==
    LET n == Len(shuffled)
        rounds == RoundsFor(n)
        bracket_size == Pow2(rounds)
        participants == PadWithByes(shuffled, bracket_size)
        first == FirstRound(participants, <<>>, n, round_offset, base)
    IN SubsequentRounds(first, [k \in 1..Len(first) |-> k], 2, rounds, round_offset, base)

\* variant: the round offset is ignored
single_elimination_without_offset(participant_ids, base, round_offset) ==
    {single_elimination_of_shuffled(shuffled, base, 0) : shuffled \in Shuffle(participant_ids)}

\* the set of draws generate_single_elimination_matches can return
generate_single_elimination_matches(participant_ids, base, round_offset) ==
    {single_elimination_of_shuffled(s, base, round_offset) : s \in Shuffle(participant_ids)}

\* generate_double_elimination_matches: winners bracket, placeholder losers
\* matches and the grand final
generate_double_elimination_matches(participant_ids, base) ==
    {LET first == Len(winners_matches)
         num_losers_rounds == Max(1, Len(participant_ids) \div 4)
         losers == [r \in 1..num_losers_rounds |->
                       NewMatch(base + first + r, r, first + r, None, None, None, "losers")]
         grand == NewMatch(base + first + num_losers_rounds + 1, GrandFinalRound,
                           first + num_losers_rounds + 1, None, None, None, "final")
     IN winners_matches \o losers \o <<grand>> :
     winners_matches \in generate_single_elimination_matches(participant_ids, base, 0)}

\* the snake-draft loop of generate_groups_knockout_seeded: groups is the
\* list of group lists, group_idx is 0-based as in the source
RECURSIVE SnakeDraft(_, _, _, _, _)
SnakeDraft(participants, k, groups, group_idx, direction) ==
    IF k > Len(participants) THEN groups
    ELSE LET num_groups == Len(groups)
             placed == [groups EXCEPT ![group_idx + 1] = Append(@, participants[k])]
             stepped == group_idx + direction
         IN IF stepped >= num_groups
            THEN SnakeDraft(participants, k + 1, placed, num_groups - 1, -1)
            ELSE IF stepped < 0
            THEN SnakeDraft(participants, k + 1, placed, 0, 1)
            ELSE SnakeDraft(participants, k + 1, placed, stepped, direction)

\* "for i, p in enumerate(participants): groups[i % num_groups].append(p)"
RECURSIVE ModuloDraft(_, _, _)
ModuloDraft(participants, k, groups) ==
    IF k > Len(participants) THEN groups
    ELSE ModuloDraft(participants, k + 1,
                     [groups EXCEPT ![((k - 1) % Len(groups)) + 1] = Append(@, participants[k])])

\* round robin within each group, match numbers running on across groups
RECURSIVE GroupStage(_, _, _, _, _)
GroupStage(groups, g, base, btype, acc) ==
    IF g > Len(groups) THEN acc
    ELSE GroupStage(groups, g + 1, base, btype,
                    acc \o RoundRobinLoop(groups[g], 1, 2, base, Len(acc) + 1, g, btype, <<>>))

\* variant: the seeded order distributed in turn instead of by snake draft
groups_knockout_seeded_in_turn(participant_ids, num_groups, base) ==
    GroupStage(ModuloDraft(participant_ids, 1, [g \in 1..num_groups |-> <<>>]),
               1, base, "group", <<>>)

\* generate_groups_knockout_seeded: snake draft, then round robin per group
generate_groups_knockout_seeded(participant_ids, num_groups, base) ==
    GroupStage(SnakeDraft(participant_ids, 1, [g \in 1..num_groups |-> <<>>], 0, 1),
               1, base, "group", <<>>)

generate_groups_knockout_matches(participant_ids, num_groups, base) ==
    {GroupStage(ModuloDraft(s, 1, [g \in 1..num_groups |-> <<>>]), 1, base, "", <<>>) :
        s \in Shuffle(participant_ids)}

----------------------------------------------------------------------------
(* The document store *)

MaxHandlers == 2   \* result handlers that run concurrently

\* a handler that has not received a request: pc is the step it takes next,
\* match_id, winner_id the request, next_match_id what it read from the
\* match, next_participant1_id, next_participant2_id what it read from the
\* next match, built the matches a draw request has generated and not yet
\* inserted
IdleHandler ==
    [pc |-> "idle", op |-> NoStr, match_id |-> None, winner_id |-> None,
     next_match_id |-> None, resource_id |-> None,
     next_participant1_id |-> None, next_participant2_id |-> None,
     built |-> <<>>]

NoHandlers == [h \in 1..MaxHandlers |-> IdleHandler]

NoMatches == [id \in {} |-> None]

\* variant: a delete that removes nothing
delete_many_none(db) == db

\* db.matches.delete_many({"competition_id": competition_id}): every stored
\* match belongs to the one competition
delete_many(db) == [id \in {} |-> db[id]]

\* db.matches.insert_many(ms)
insert_many(db, ms) ==
    LET newIds == {ms[k].id : k \in DOMAIN ms}
    IN [id \in DOMAIN db \cup newIds |->
           IF id \in newIds THEN ms[CHOOSE k \in DOMAIN ms : ms[k].id = id] ELSE db[id]]

\* db.matches.update_one({"id": id}, {"$set": ...}) leaves the store as it is
\* when no document has the id
Stored(db, id) == id \in DOMAIN db

\* history: a generator writes a first-round winner (a bye) into the next
\* match when it links the two
PropagatedAtCreation(ms) ==
    [id \in {ms[k].id : k \in DOMAIN ms} |->
        LET m == ms[CHOOSE k \in DOMAIN ms : ms[k].id = id]
        IN IF m.winner_id # None /\ m.next_match_id # None THEN 1 ELSE 0]

\* the response of a request, with what the request asked for: the match
\* addressed, the winner recorded (None when the request records none) and
\* whether complete_match counted a level scoreline
Response(op, code, match) ==
    [op |-> op, code |-> code, match |-> match, winner_id |-> None, tie |-> FALSE,
     standings |-> <<>>, qualifiers |-> <<>>]

----------------------------------------------------------------------------
(* Seeding options of generate-draw-advanced *)

\* sorted(participant_ids, key=rating, reverse=True): stable, so equal
\* ratings keep their input order
RECURSIVE SortByRating(_, _)
SortByRating(s, rating) ==
    IF Len(s) <= 1 THEN s
    ELSE LET rest == SortByRating(Tail(s), rating)
             x == s[1]
             \* x goes before the first element of the sorted rest whose rating is not greater
             ahead == Cardinality({i \in 1..Len(rest) : rating[rest[i]] > rating[x]})
         IN SubSeq(rest, 1, ahead) \o <<x>> \o SubSeq(rest, ahead + 1, Len(rest))

\* the seed_order values a caller submits: every ordering of the
\* participants, an absent one, one that misses a participant and one that
\* names a participant twice
SeedOrderInputs(participant_ids) ==
    Perms(participant_ids)
        \cup {<<>>, Tail(participant_ids), participant_ids \o <<participant_ids[1]>>}

SeedingInputs == {"random", "rating", "manual"}

----------------------------------------------------------------------------
(* Initial state: a competition with its participants added, no draw yet *)

Competitions(maxN) ==
    {[participant_ids |-> [i \in 1..n |-> i],
      format |-> f,
      num_groups |-> g,
      advance_per_group |-> 2,
      status |-> "draft"] :
        n \in 1..maxN, f \in FORMATS, g \in 1..MaxGroups}

InitWith(maxN) ==
    /\ competition \in {c \in Competitions(maxN) : c.format # "groups_knockout" => c.num_groups = 1}
    /\ matches = NoMatches
    /\ resources = [r \in {R1} |-> None]
    /\ idCtr = 0
    /\ resp = Response("none", 0, None)
    /\ produced = {}
    /\ propagated = NoMatches
    /\ calls = 0
    /\ handlers = NoHandlers

Init == InitWith(MaxN)

----------------------------------------------------------------------------
(* Draw generation requests *)

\* what both endpoints do with the generated list: insert it when non-empty
\* and mark the competition
StoreDraw(db, ms, op) ==
    /\ matches' = IF ms # <<>> THEN insert_many(db, ms) ELSE db
    /\ idCtr' = idCtr + Len(ms)
    /\ produced' = {ms[k].id : k \in DOMAIN ms}
    /\ propagated' = [id \in DOMAIN matches' |->
                         IF id \in produced' THEN PropagatedAtCreation(ms)[id] ELSE propagated[id]]
    /\ competition' = [competition EXCEPT !.status = "draw_generated"]
    /\ resp' = Response(op, 200, None)
    /\ UNCHANGED resources

\* POST .../generate-draw
generate_draw ==
    /\ calls' = calls + 1
    /\ UNCHANGED handlers
    /\ LET participant_ids == competition.participant_ids
           format_type == competition.format
           num_groups == competition.num_groups
       IN IF Len(participant_ids) < 2
          THEN /\ resp' = Response("generate_draw", 400, None)
               /\ UNCHANGED <<competition, matches, resources, idCtr, produced, propagated>>
          ELSE \E ms \in
                   IF format_type = "round_robin"
                   THEN {generate_round_robin_matches(participant_ids, idCtr)}
                   ELSE IF format_type = "single_elimination"
                   THEN generate_single_elimination_matches(participant_ids, idCtr, 0)
                   ELSE IF format_type = "double_elimination"
                   THEN generate_double_elimination_matches(participant_ids, idCtr)
                   ELSE IF format_type = "groups_knockout"
                   THEN generate_groups_knockout_matches(participant_ids, num_groups, idCtr)
                   ELSE {<<>>} :
                 StoreDraw(delete_many(matches), ms, "generate_draw")

\* the ordered participant lists the seeding option yields
OrderedParticipants(participant_ids, seeding, seed_order) ==
    IF seeding = "manual" /\ seed_order # <<>>
    THEN {seed_order}
    ELSE IF seeding = "rating"
    THEN {SortByRating(participant_ids, rating) :
              rating \in [Range(participant_ids) -> 0..MaxRating]}
    ELSE Shuffle(participant_ids)

\* POST .../generate-draw-advanced
generate_draw_advanced(seeding, seed_order) ==
    /\ calls' = calls + 1
    /\ UNCHANGED handlers
    /\ LET participant_ids == competition.participant_ids
           format_type == competition.format
           num_groups == competition.num_groups
       IN IF Len(participant_ids) < 2
          THEN /\ resp' = Response("generate_draw_advanced", 400, None)
               /\ UNCHANGED <<competition, matches, resources, idCtr, produced, propagated>>
          ELSE IF seeding = "manual" /\ seed_order # <<>> /\ Range(seed_order) # Range(participant_ids)
          THEN \* the existing matches are deleted before the seed order is validated
               /\ matches' = delete_many(matches)
               /\ propagated' = NoMatches
               /\ resp' = Response("generate_draw_advanced", 400, None)
               /\ UNCHANGED <<competition, resources, idCtr, produced>>
          ELSE \E ordered_participants \in OrderedParticipants(participant_ids, seeding, seed_order) :
               \E ms \in
                   IF format_type = "round_robin"
                   THEN {generate_round_robin_matches(ordered_participants, idCtr)}
                   ELSE IF format_type = "single_elimination"
                   THEN {generate_single_elimination_seeded(ordered_participants, idCtr, 0)}
                   ELSE IF format_type = "double_elimination"
                   THEN generate_double_elimination_matches(ordered_participants, idCtr)
                   ELSE IF format_type = "groups_knockout"
                   THEN {generate_groups_knockout_seeded(ordered_participants, num_groups, idCtr)}
                   ELSE {<<>>} :
                 StoreDraw(delete_many(matches), ms, "generate_draw_advanced")

\* POST .../reset-draw
reset_draw ==
    /\ calls' = calls + 1
    /\ UNCHANGED handlers
    /\ matches' = delete_many(matches)
    /\ propagated' = NoMatches
    /\ competition' = [competition EXCEPT !.status = "draft"]
    /\ resp' = Response("reset_draw", 200, None)
    /\ UNCHANGED <<resources, idCtr, produced>>

----------------------------------------------------------------------------
(* Request inputs *)

\* match ids a caller can name: every id handed out so far (ids of a
\* discarded generation included) and, before any draw, one unknown id
MatchIdInputs == 1..Max(idCtr, 1)

ParticipantInputs == Range(competition.participant_ids)

SetScores == {[score1 |-> 1, score2 |-> 0], [score1 |-> 0, score2 |-> 1]}

RECURSIVE SeqsUpTo(_, _)
SeqsUpTo(S, n) ==
    IF n = 0 THEN {<<>>}
    ELSE LET shorter == SeqsUpTo(S, n - 1)
         IN shorter \cup {Append(q, x) : q \in {t \in shorter : Len(t) = n - 1}, x \in S}

ScorelineInputs == SeqsUpTo(SetScores, MaxSets)

\* scorelines a referee submits
RefereeScorelineInputs == {<<>>, <<[score1 |-> 1, score2 |-> 0]>>}

\* status strings submitted through MatchUpdate
StatusInputs == {NoStr, "pending", "live", "cancelled"}

\* the MatchUpdate bodies sent to PUT .../matches/{match_id}; scorelines
\* reach update_match through complete_match
MatchUpdates ==
    [status : StatusInputs,
     scores : {<<>>},
     winner_id : {None} \cup ParticipantInputs,
     resource_id : {None, R1}]

\* sum(1 for s in scores if s.score1 > s.score2), and the same for side 2
p1_sets(scores) == Cardinality({i \in DOMAIN scores : scores[i].score1 > scores[i].score2})
p2_sets(scores) == Cardinality({i \in DOMAIN scores : scores[i].score2 > scores[i].score1})

----------------------------------------------------------------------------
(* Winner propagation *)

\* the "Update next match" block of update_match and advance_winner, applied
\* to the store db for the match document match as it was read at the start
\* of the request
AdvanceToNext(db, match, winner_id) ==
    IF match.next_match_id # None /\ Stored(db, match.next_match_id)
    THEN LET next_match == db[match.next_match_id]
         IN IF next_match.participant1_id = None
            THEN [db EXCEPT ![match.next_match_id].participant1_id = winner_id]
            ELSE IF next_match.participant2_id = None
            THEN [db EXCEPT ![match.next_match_id].participant2_id = winner_id]
            ELSE db
    ELSE db

\* history: one more write into the next match on behalf of match id
CountPropagation(before, after, id) ==
    IF before # after THEN [propagated EXCEPT ![id] = @ + 1] ELSE propagated

\* a failed request: only the response changes
Fails(op, code) ==
    /\ resp' = Response(op, code, None)
    /\ UNCHANGED <<competition, matches, resources, idCtr, produced, propagated>>

----------------------------------------------------------------------------
(* Match requests *)

\* the body of update_match from the point where the match has been read;
\* op names the endpoint that runs it and tie marks a level scoreline
UpdateMatchBody(match_id, update, op, tie) ==
    LET match == matches[match_id]
        sets_status == IF update.winner_id # None THEN "completed"
                       ELSE IF update.status # NoStr THEN update.status
                       ELSE match.status
        afterNext == IF update.winner_id # None
                     THEN AdvanceToNext(matches, match, update.winner_id)
                     ELSE matches
        \* db.matches.update_one({"id": match_id}, {"$set": update_data})
        afterSet ==
            [afterNext EXCEPT
                ![match_id].status = sets_status,
                ![match_id].scores = IF update.scores # <<>> THEN update.scores ELSE @,
                ![match_id].resource_id = IF update.resource_id # None THEN update.resource_id ELSE @,
                ![match_id].winner_id = IF update.winner_id # None THEN update.winner_id ELSE @]
    IN /\ matches' = afterSet
       /\ propagated' = CountPropagation(matches, afterNext, match_id)
       \* "Clear resource"
       /\ resources' = IF update.winner_id # None /\ match.resource_id # None
                       THEN [resources EXCEPT ![match.resource_id] = None]
                       ELSE resources
       /\ resp' = [Response(op, 200, match_id) EXCEPT !.tie = tie, !.winner_id = update.winner_id]
       /\ UNCHANGED <<competition, idCtr, produced>>

\* PUT .../matches/{match_id}
update_match(match_id, update) ==
    /\ calls' = calls + 1
    /\ UNCHANGED handlers
    /\ IF ~Stored(matches, match_id)
       THEN Fails("update_match", 404)
       ELSE UpdateMatchBody(match_id, update, "update_match", FALSE)

\* POST .../matches/{match_id}/complete
complete_match(match_id, scores) ==
    /\ calls' = calls + 1
    /\ UNCHANGED handlers
    /\ IF ~Stored(matches, match_id)
       THEN Fails("complete_match", 404)
       ELSE IF matches[match_id].status # "live"
       THEN Fails("complete_match", 400)
       ELSE LET match == matches[match_id]
                winner_id == IF p1_sets(scores) > p2_sets(scores)
                             THEN match.participant1_id ELSE match.participant2_id
                update == [status |-> NoStr, scores |-> scores,
                           winner_id |-> winner_id, resource_id |-> None]
            IN UpdateMatchBody(match_id, update, "complete_match",
                               p1_sets(scores) = p2_sets(scores))

\* POST .../competitions/{competition_id}/advance-winner
advance_winner(match_id, winner_id) ==
    /\ calls' = calls + 1
    /\ UNCHANGED handlers
    /\ IF ~Stored(matches, match_id)
       THEN Fails("advance_winner", 404)
       ELSE IF winner_id \notin {matches[match_id].participant1_id, matches[match_id].participant2_id}
       THEN Fails("advance_winner", 400)
       ELSE LET match == matches[match_id]
                afterSet == [matches EXCEPT ![match_id].winner_id = winner_id,
                                            ![match_id].status = "completed"]
                afterNext == AdvanceToNext(afterSet, match, winner_id)
            IN /\ matches' = afterNext
               /\ propagated' = CountPropagation(afterSet, afterNext, match_id)
               /\ resp' = [Response("advance_winner", 200, match_id) EXCEPT !.winner_id = winner_id]
               /\ UNCHANGED <<competition, resources, idCtr, produced>>

\* POST .../matches/{match_id}/referee-access
generate_referee_access(match_id) ==
    /\ calls' = calls + 1
    /\ UNCHANGED handlers
    /\ IF ~Stored(matches, match_id)
       THEN Fails("generate_referee_access", 404)
       ELSE /\ matches' = [matches EXCEPT ![match_id].referee_access = TRUE]
            /\ resp' = Response("generate_referee_access", 200, match_id)
            /\ UNCHANGED <<competition, resources, idCtr, produced, propagated>>

\* POST /referee/score/{tournament_id}/{match_id}; code_ok tells whether the
\* submitted access code is the match's unexpired one
referee_update_score(match_id, code_ok, scores, winner_id) ==
    /\ calls' = calls + 1
    /\ UNCHANGED handlers
    /\ IF ~Stored(matches, match_id)
       THEN Fails("referee_update_score", 404)
       ELSE IF ~matches[match_id].referee_access \/ ~code_ok
       THEN Fails("referee_update_score", 403)
       ELSE /\ matches' = [matches EXCEPT
                             ![match_id].scores = scores,
                             ![match_id].winner_id = IF winner_id # None THEN winner_id ELSE @,
                             ![match_id].status = IF winner_id # None THEN "completed" ELSE @]
            /\ resp' = [Response("referee_update_score", 200, match_id) EXCEPT !.winner_id = winner_id]
            /\ UNCHANGED <<competition, resources, idCtr, produced, propagated>>

\* POST .../matches/{match_id}/assign
assign_match_to_resource(match_id, resource_id) ==
    /\ calls' = calls + 1
    /\ UNCHANGED handlers
    /\ IF resources[resource_id] # None
       THEN Fails("assign_match_to_resource", 400)
       ELSE /\ matches' = IF Stored(matches, match_id)
                          THEN [matches EXCEPT ![match_id].resource_id = resource_id,
                                               ![match_id].status = "scheduled"]
                          ELSE matches
            /\ resources' = [resources EXCEPT ![resource_id] = match_id]
            /\ resp' = Response("assign_match_to_resource", 200, match_id)
            /\ UNCHANGED <<competition, idCtr, produced, propagated>>

\* POST .../control-desk/assign-next
assign_next_match(resource_id) ==
    /\ calls' = calls + 1
    /\ UNCHANGED handlers
    /\ LET assignable == {id \in DOMAIN matches :
                             /\ matches[id].status = "pending"
                             /\ matches[id].resource_id = None
                             /\ matches[id].participant1_id # None
                             /\ matches[id].participant2_id # None}
       IN IF resources[resource_id] # None
          THEN Fails("assign_next_match", 400)
          ELSE IF assignable = {}
          THEN Fails("assign_next_match", 404)
          ELSE \* find_one without a sort: the store picks the document
               \E id \in assignable :
                  /\ matches' = [matches EXCEPT ![id].resource_id = resource_id,
                                                ![id].status = "scheduled"]
                  /\ resources' = [resources EXCEPT ![resource_id] = id]
                  /\ resp' = Response("assign_next_match", 200, id)
                  /\ UNCHANGED <<competition, idCtr, produced, propagated>>

\* POST .../matches/{match_id}/start
start_match(match_id) ==
    /\ calls' = calls + 1
    /\ UNCHANGED handlers
    /\ IF ~Stored(matches, match_id)
       THEN Fails("start_match", 404)
       ELSE IF matches[match_id].resource_id = None
       THEN Fails("start_match", 400)
       ELSE IF matches[match_id].status \notin {"pending", "scheduled"}
       THEN Fails("start_match", 400)
       ELSE /\ matches' = [matches EXCEPT ![match_id].status = "live"]
            /\ competition' = [competition EXCEPT !.status = "in_progress"]
            /\ resp' = Response("start_match", 200, match_id)
            /\ UNCHANGED <<resources, idCtr, produced, propagated>>

----------------------------------------------------------------------------
(* The request-level specification: any sequence of at most MaxCalls requests *)

Budget == calls < MaxCalls

Next ==
    \/ Budget /\ generate_draw
    \/ Budget /\ \E seeding \in SeedingInputs :
                 \E seed_order \in IF seeding = "manual"
                                   THEN SeedOrderInputs(competition.participant_ids) ELSE {<<>>} :
                    generate_draw_advanced(seeding, seed_order)
    \/ Budget /\ reset_draw
    \/ Budget /\ \E match_id \in MatchIdInputs, update \in MatchUpdates : update_match(match_id, update)
    \/ Budget /\ \E match_id \in MatchIdInputs, scores \in ScorelineInputs : complete_match(match_id, scores)
    \/ Budget /\ \E match_id \in MatchIdInputs, winner_id \in ParticipantInputs :
                    advance_winner(match_id, winner_id)
    \/ Budget /\ \E match_id \in MatchIdInputs : generate_referee_access(match_id)
    \/ Budget /\ \E match_id \in MatchIdInputs, code_ok \in BOOLEAN, scores \in RefereeScorelineInputs,
                    winner_id \in {None} \cup ParticipantInputs :
                    referee_update_score(match_id, code_ok, scores, winner_id)
    \/ Budget /\ \E match_id \in MatchIdInputs : assign_match_to_resource(match_id, R1)
    \/ Budget /\ assign_next_match(R1)
    \/ Budget /\ \E match_id \in MatchIdInputs : start_match(match_id)

Spec == Init /\ [][Next]_vars

----------------------------------------------------------------------------
(* The draw-level specification: a competition of 2..MaxDrawN participants *)
(* gets its draw from either endpoint, with a well-formed seeding input,   *)
(* and an elimination bracket is then played match by match: each result   *)
(* names a participant of a match that has both participants and is not    *)
(* completed yet.                                                          *)

\* the formats whose draws this specification generates
DrawFormats == {"round_robin", "single_elimination"}

InitDraw ==
    /\ InitWith(MaxDrawN)
    /\ Len(competition.participant_ids) >= 2
    /\ competition.format \in DrawFormats

\* a draw has been generated (it may hold no match at all: a group of one)
Drawn == competition.status # "draft"

draw_generate == ~Drawn /\ generate_draw

draw_generate_advanced ==
    /\ ~Drawn
    /\ \E seeding \in SeedingInputs :
       \E seed_order \in IF seeding = "manual" THEN Perms(competition.participant_ids) ELSE {<<>>} :
          generate_draw_advanced(seeding, seed_order)

Playable(id) ==
    /\ matches[id].status # "completed"
    /\ matches[id].participant1_id # None
    /\ matches[id].participant2_id # None

play_match ==
    /\ competition.format = "single_elimination"
    /\ \E match_id \in DOMAIN matches :
          /\ Playable(match_id)
          /\ \E winner_id \in {matches[match_id].participant1_id, matches[match_id].participant2_id} :
                advance_winner(match_id, winner_id)

NextDraw ==
    \/ draw_generate
    \/ draw_generate_advanced
    \/ play_match

SpecDraw == InitDraw /\ [][NextDraw]_vars

----------------------------------------------------------------------------
(* Properties of result recording (request-level specification)            *)

\* the endpoints that record a result and run the "update next match" block
PropagatingOps == {"update_match", "complete_match", "advance_winner"}

\* every endpoint that records a result
ResultOps == PropagatingOps \cup {"referee_update_score"}

\* the step is a successful request that records a winner for match id
RecordsResult(id) ==
    /\ resp'.code = 200
    /\ resp'.op \in ResultOps
    /\ resp'.match = id
    /\ resp'.winner_id # None

\* C1: completion is append-only.  No step changes the winner_id of a match
\* that is completed, and no request that records a winner for a completed
\* match succeeds (it has to fail with AlreadyCompleted).
C1_CompletionAppendOnly ==
    [][\A id \in DOMAIN matches \cap DOMAIN matches' :
          matches[id].status = "completed" =>
             /\ matches'[id].winner_id = matches[id].winner_id
             /\ ~RecordsResult(id)]_vars

\* C2: downstream propagation happens exactly once per match.  The winner
\* of a match that has a next match is written into that next match at most
\* once, and once the match is completed with a winner it has been written.
C2_PropagatedExactlyOnce ==
    \A id \in DOMAIN matches :
       /\ propagated[id] <= 1
       /\ (/\ matches[id].status = "completed"
           /\ matches[id].winner_id # None
           /\ matches[id].next_match_id # None) => propagated[id] = 1

StatusRank(status) ==
    CASE status = "pending" -> 1
      [] status = "scheduled" -> 2
      [] status = "live" -> 3
      [] status = "completed" -> 4
      [] status = "cancelled" -> 4

\* pending -> scheduled -> live -> completed, or pending/scheduled ->
\* cancelled; a status may be skipped but never gone back on
ForwardStatus(old, new) ==
    \/ old = new
    \/ /\ new # "cancelled"
       /\ old \notin {"completed", "cancelled"}
       /\ StatusRank(old) < StatusRank(new)
    \/ /\ new = "cancelled"
       /\ old \in {"pending", "scheduled"}

\* C3: the status of a match only moves forward, and a completed match
\* stays completed, in every step.
C3_StatusOnlyForward ==
    [][\A id \in DOMAIN matches \cap DOMAIN matches' :
          ForwardStatus(matches[id].status, matches'[id].status)]_vars

\* C4: a result whose winner is not one of the two participant slots is
\* rejected, so the winner_id of every completed match is one of its two
\* participant slots.
C4_WinnerIsParticipant ==
    \A id \in DOMAIN matches :
       matches[id].status = "completed" =>
          matches[id].winner_id \in {matches[id].participant1_id, matches[id].participant2_id}

\* C5: complete_match rejects a scoreline in which both sides won the same
\* number of sets (the empty scoreline included): the request does not
\* succeed, and the side with strictly more sets is the winner otherwise.
C5_LevelScorelineRejected ==
    (resp.op = "complete_match" /\ resp.code = 200) =>
       /\ ~resp.tie
       /\ LET m == matches[resp.match]
          IN /\ p1_sets(m.scores) > p2_sets(m.scores) => m.winner_id = m.participant1_id
             /\ p2_sets(m.scores) > p1_sets(m.scores) => m.winner_id = m.participant2_id

\* the next match of match id is stored and has both slots filled
NextIsFull(id) ==
    /\ matches[id].next_match_id # None
    /\ Stored(matches, matches[id].next_match_id)
    /\ matches[matches[id].next_match_id].participant1_id # None
    /\ matches[matches[id].next_match_id].participant2_id # None

\* C6: a result recorded for a match whose next match has both slots filled
\* is reported as a consistency violation, never accepted with the winner
\* dropped; with a free slot the winner goes to slot 1 if it is empty,
\* otherwise to slot 2.
C6_FullNextMatchReported ==
    [][\A id \in DOMAIN matches :
          (/\ RecordsResult(id)
           /\ resp'.op \in PropagatingOps
           /\ matches[id].next_match_id # None
           /\ Stored(matches, matches[id].next_match_id)) =>
             LET nid == matches[id].next_match_id
             IN /\ ~NextIsFull(id)
                /\ matches[nid].participant1_id = None =>
                      matches'[nid].participant1_id = resp'.winner_id
                /\ (matches[nid].participant1_id # None /\ matches[nid].participant2_id = None) =>
                      matches'[nid].participant2_id = resp'.winner_id]_vars

----------------------------------------------------------------------------
(* Properties of draw generation                                           *)

GenerateOps == {"generate_draw", "generate_draw_advanced"}

\* C7: regeneration replaces the draw.  Every stored match was built by the
\* latest generation, right after a successful generate-draw request the
\* stored set is exactly that generation, and every next_match_id names a
\* stored match of it.
C7_RegenerationReplacesDraw ==
    /\ DOMAIN matches \subseteq produced
    /\ (resp.op \in GenerateOps /\ resp.code = 200) => DOMAIN matches = produced
    /\ \A id \in DOMAIN matches :
          matches[id].next_match_id # None =>
             matches[id].next_match_id \in DOMAIN matches \cap produced

\* a second generation has just replaced a first one that had matches, and
\* the new draw is a linked bracket
C7_Witness ==
    /\ resp.op \in GenerateOps
    /\ resp.code = 200
    /\ calls = 2
    /\ idCtr > Cardinality(produced)
    /\ \E id \in DOMAIN matches : matches[id].next_match_id # None

\* the participants of the competition, and their number
Participants == Range(competition.participant_ids)
NumParticipants == Len(competition.participant_ids)

\* matches decided by a result between two participants (a bye is not one)
DecidedMatches ==
    {id \in DOMAIN matches :
        /\ matches[id].winner_id # None
        /\ matches[id].participant1_id # None
        /\ matches[id].participant2_id # None}

\* no match that has both participants is still to be played
FullyPlayed == \A id \in DOMAIN matches : ~Playable(id)

\* C8: a single-elimination draw of n participants has ceil(log2(n))
\* distinct rounds, and once it is fully played exactly n-1 matches have
\* been decided by a result (byes are resolved at creation).
C8_RoundsAndDecidedMatches ==
    (competition.format = "single_elimination" /\ Drawn) =>
       /\ Cardinality({matches[id].round_number : id \in DOMAIN matches})
             = CeilLog2(NumParticipants)
       /\ FullyPlayed => Cardinality(DecidedMatches) = NumParticipants - 1

FirstRoundMatches == {id \in DOMAIN matches : matches[id].round_number = 1}

\* first-round matches with one participant and one bye slot
ByeMatches ==
    {id \in FirstRoundMatches :
        (matches[id].participant1_id = None) # (matches[id].participant2_id = None)}

\* C9: in a single-elimination draw of n participants and bracket size the
\* next power of two, exactly size - n first-round matches have one
\* participant and a bye; each is completed with that participant as winner,
\* the byes go to the top size - n seeds, and no first-round match is empty
\* on both sides.
C9_ByesAutoCompleted ==
    (competition.format = "single_elimination" /\ Drawn) =>
       LET byes == Pow2(CeilLog2(NumParticipants)) - NumParticipants
       IN /\ Cardinality(ByeMatches) = byes
          /\ \A id \in ByeMatches :
                /\ matches[id].status = "completed"
                /\ matches[id].winner_id \in Participants
                /\ matches[id].winner_id \in {matches[id].participant1_id, matches[id].participant2_id}
                /\ matches[id].seed1 # None => matches[id].seed1 <= byes
          /\ \A id \in FirstRoundMatches :
                matches[id].participant1_id # None \/ matches[id].participant2_id # None

----------------------------------------------------------------------------
(* The seeded-bracket specification: a single-elimination competition of   *)
(* 2..MaxSeedN participants gets its draw from generate-draw-advanced with *)
(* a manual seed order, and the bracket is then played match by match.     *)

MaxSeedN == 8      \* participants of the competition in the seeded-bracket specification

\* the list s back to front
Reverse(s) == [i \in 1..Len(s) |-> s[Len(s) + 1 - i]]

\* the manual seed orders submitted: the stored order and its reverse
SeededOrderInputs(participant_ids) == {participant_ids, Reverse(participant_ids)}

InitSeeded ==
    /\ InitWith(MaxSeedN)
    /\ Len(competition.participant_ids) >= 2
    /\ competition.format = "single_elimination"

seeded_generate ==
    /\ ~Drawn
    /\ \E seed_order \in SeededOrderInputs(competition.participant_ids) :
          generate_draw_advanced("manual", seed_order)

seeded_play == play_match

NextSeeded ==
    \/ seeded_generate
    \/ seeded_play

SpecSeeded == InitSeeded /\ [][NextSeeded]_vars

\* the bracket size of the competition: the next power of two
BracketSize == Pow2(RoundsFor(NumParticipants))

\* the first-round match with match_number k
FirstRoundMatch(k) ==
    CHOOSE id \in FirstRoundMatches : matches[id].match_number = k

\* C11: the seeded pairing order of a power-of-two size is a permutation of
\* 0..size-1 built by recursive halving (the two seeds of a pair add up to
\* size-1, and the first seeds of the pairs are the order of half the size);
\* the first-round matches of the draw carry it in bracket order, and for
\* size 8 the pairs are (1,8),(4,5),(2,7),(3,6) in 1-based seeds.
C11_SeededPairingOrder ==
    Drawn =>
       LET size == BracketSize
           half == size \div 2
           order == create_seeded_bracket_order(size)
           n == NumParticipants
       IN /\ Len(order) = size
          /\ Range(order) = 0..(size - 1)
          /\ \A k \in 1..half : order[2 * k - 1] + order[2 * k] = size - 1
          /\ size > 2 =>
                [k \in 1..half |-> order[2 * k - 1]] = create_seeded_bracket_order(half)
          /\ size = 8 => order = <<0, 7, 3, 4, 1, 6, 2, 5>>
          /\ Cardinality(FirstRoundMatches) = half
          /\ \A k \in 1..half :
                LET m == matches[FirstRoundMatch(k)]
                    s1 == order[2 * k - 1] + 1
                    s2 == order[2 * k] + 1
                IN /\ m.seed1 = IF s1 <= n THEN s1 ELSE None
                   /\ m.seed2 = IF s2 <= n THEN s2 ELSE None

\* a draw of eight seeds whose first round is (1,8),(4,5),(2,7),(3,6)
C11_Witness ==
    /\ Drawn
    /\ NumParticipants = 8
    /\ <<matches[FirstRoundMatch(1)].seed1, matches[FirstRoundMatch(1)].seed2>> = <<1, 8>>
    /\ <<matches[FirstRoundMatch(2)].seed1, matches[FirstRoundMatch(2)].seed2>> = <<4, 5>>
    /\ <<matches[FirstRoundMatch(3)].seed1, matches[FirstRoundMatch(3)].seed2>> = <<2, 7>>
    /\ <<matches[FirstRoundMatch(4)].seed1, matches[FirstRoundMatch(4)].seed2>> = <<3, 6>>

----------------------------------------------------------------------------
(* The group-draw specification: a groups_knockout competition of          *)
(* 2..MaxGroupN participants in 1..MaxDraftGroups groups gets its group    *)
(* stage from either endpoint.                                             *)

MaxGroupN == 9        \* participants of a competition drawn into groups
MaxDraftGroups == 3   \* num_groups of a competition drawn into groups
MaxShuffleN == 5      \* participants up to which generate-draw (a shuffle) draws the groups

InitGroups ==
    /\ competition \in {[participant_ids |-> [i \in 1..n |-> i],
                         format |-> "groups_knockout",
                         num_groups |-> g,
                         advance_per_group |-> 2,
                         status |-> "draft"] : n \in 2..MaxGroupN, g \in 1..MaxDraftGroups}
    /\ matches = NoMatches
    /\ resources = [r \in {R1} |-> None]
    /\ idCtr = 0
    /\ resp = Response("none", 0, None)
    /\ produced = {}
    /\ propagated = NoMatches
    /\ calls = 0
    /\ handlers = NoHandlers

groups_generate ==
    /\ ~Drawn
    /\ Len(competition.participant_ids) <= MaxShuffleN
    /\ generate_draw

groups_generate_advanced ==
    /\ ~Drawn
    /\ \E seed_order \in SeededOrderInputs(competition.participant_ids) :
          generate_draw_advanced("manual", seed_order)

NextGroups ==
    \/ groups_generate
    \/ groups_generate_advanced

SpecGroups == InitGroups /\ [][NextGroups]_vars

\* the snake pattern 1,2,..,k,k,..,2,1,1,2,..: the group (1-based) of the
\* participant at 0-based position p of the order
SnakeGroupOf(p, k) ==
    IF (p \div k) % 2 = 0 THEN (p % k) + 1 ELSE k - (p % k)

\* distribution in turn 1,2,..,k,1,2,..
ModuloGroupOf(p, k) == (p % k) + 1

\* the orders the endpoint that produced the draw distributed
DraftOrders ==
    IF resp.op = "generate_draw_advanced"
    THEN SeededOrderInputs(competition.participant_ids)
    ELSE Shuffle(competition.participant_ids)

\* the stored group stage is the distribution of order by GroupOf: every
\* participant has one group in 1..num_groups, group sizes differ by at most
\* one (three each for 9 participants in 3 groups), every stored match pairs
\* two participants of its group and every pair of a group meets once
DraftedAs(order, GroupOf(_, _)) ==
    LET k == competition.num_groups
        n == Len(order)
        grp(p) == GroupOf(p - 1, k)
        size(g) == Cardinality({p \in 1..n : grp(p) = g})
    IN /\ Range(order) = Participants
       /\ \A p \in 1..n : grp(p) \in 1..k
       /\ \A g, h \in 1..k : size(g) - size(h) <= 1
       /\ (n = 9 /\ k = 3) => \A g \in 1..k : size(g) = 3
       /\ \A id \in DOMAIN matches :
             \E p, q \in 1..n :
                /\ p < q
                /\ matches[id].participant1_id = order[p]
                /\ matches[id].participant2_id = order[q]
                /\ grp(p) = matches[id].group_number
                /\ grp(q) = matches[id].group_number
       /\ \A p, q \in 1..n :
             (p < q /\ grp(p) = grp(q)) =>
                Cardinality({id \in DOMAIN matches :
                                {matches[id].participant1_id, matches[id].participant2_id}
                                   = {order[p], order[q]}}) = 1

----------------------------------------------------------------------------
(* Standings *)

\* the row calculate_standings creates for a participant it has not seen
NewRow(pid, group_num) ==
    [participant_id |-> pid, group_number |-> group_num,
     played |-> 0, wins |-> 0, losses |-> 0,
     sets_for |-> 0, sets_against |-> 0,
     points_for |-> 0, points_against |-> 0]

\* "if pid and pid not in standings: standings[pid] = {...}"; the dict keeps
\* insertion order, so the standings are a list of rows
AddRow(standings, pid, group_num) ==
    IF pid # None /\ ~(\E i \in DOMAIN standings : standings[i].participant_id = pid)
    THEN Append(standings, NewRow(pid, group_num))
    ELSE standings

\* standings[pid][...] += ... for the fields of delta
AddTo(standings, pid, delta) ==
    [i \in DOMAIN standings |->
        IF standings[i].participant_id = pid
        THEN [standings[i] EXCEPT
                !.played = @ + delta.played, !.wins = @ + delta.wins, !.losses = @ + delta.losses,
                !.sets_for = @ + delta.sets_for, !.sets_against = @ + delta.sets_against,
                !.points_for = @ + delta.points_for, !.points_against = @ + delta.points_against]
        ELSE standings[i]]

\* sum(...) over a list of numbers
RECURSIVE SumSeq(_)
SumSeq(q) == IF q = <<>> THEN 0 ELSE Head(q) + SumSeq(Tail(q))

\* what one completed match adds to the row of its side (1 or 2)
MatchDelta(match, side) ==
    LET mine(sc) == IF side = 1 THEN sc.score1 ELSE sc.score2
        theirs(sc) == IF side = 1 THEN sc.score2 ELSE sc.score1
        pid == IF side = 1 THEN match.participant1_id ELSE match.participant2_id
        other == IF side = 1 THEN match.participant2_id ELSE match.participant1_id
        wonSet(sc) == IF mine(sc) > theirs(sc) THEN 1 ELSE 0
        lostSet(sc) == IF theirs(sc) > mine(sc) THEN 1 ELSE 0
        \* "if winner_id == p1_id: ... elif winner_id == p2_id: ..."
        p1wins == match.winner_id = match.participant1_id
        p2wins == ~p1wins /\ match.winner_id = match.participant2_id
    IN [played |-> 1,
        wins |-> IF (side = 1 /\ p1wins) \/ (side = 2 /\ p2wins) THEN 1 ELSE 0,
        losses |-> IF (side = 2 /\ p1wins) \/ (side = 1 /\ p2wins) THEN 1 ELSE 0,
        sets_for |-> SumSeq([i \in 1..Len(match.scores) |-> wonSet(match.scores[i])]),
        sets_against |-> SumSeq([i \in 1..Len(match.scores) |-> lostSet(match.scores[i])]),
        points_for |-> SumSeq([i \in 1..Len(match.scores) |-> mine(match.scores[i])]),
        points_against |-> SumSeq([i \in 1..Len(match.scores) |-> theirs(match.scores[i])])]

\* the body of the loop "for match in matches" of calculate_standings
FoldMatch(standings, match) ==
    LET withRows == AddRow(AddRow(standings, match.participant1_id, match.group_number),
                           match.participant2_id, match.group_number)
    IN IF match.participant1_id # None /\ match.participant2_id # None
       THEN AddTo(AddTo(withRows, match.participant1_id, MatchDelta(match, 1)),
                  match.participant2_id, MatchDelta(match, 2))
       ELSE withRows

RECURSIVE FoldMatches(_, _, _)
FoldMatches(db, found, standings) ==
    IF found = <<>> THEN standings
    ELSE FoldMatches(db, Tail(found), FoldMatch(standings, db[Head(found)]))

\* the completed matches of the competition
Completed(db) == {id \in DOMAIN db : db[id].status = "completed"}

RECURSIVE SetToSeq(_)
SetToSeq(S) ==
    IF S = {} THEN <<>>
    ELSE LET x == CHOOSE y \in S : \A z \in S : y <= z
         IN <<x>> \o SetToSeq(S \ {x})

\* db.matches.find({... "status": "completed"}) without a sort: the store
\* returns the documents in an order of its choosing
FindCompleted(db) == Perms(SetToSeq(Completed(db)))

\* calculate_standings for the order found in which the store returned the
\* completed matches
calculate_standings(db, found) == FoldMatches(db, found, <<>>)

\* variant: sorting by wins only
sorts_before_by_wins(a, b) == a.wins > b.wins

\* the sort key (-wins, -(points_for - points_against)): row a sorts before b
SortsBefore(a, b) ==
    \/ a.wins > b.wins
    \/ /\ a.wins = b.wins
       /\ a.points_for - a.points_against > b.points_for - b.points_against

\* list.sort(key=...): stable, rows with equal keys keep their order
RECURSIVE SortStandings(_)
SortStandings(rows) ==
    IF Len(rows) <= 1 THEN rows
    ELSE LET rest == SortStandings(Tail(rows))
             x == rows[1]
             ahead == Cardinality({i \in 1..Len(rest) : SortsBefore(rest[i], x)})
         IN SubSeq(rest, 1, ahead) \o <<x>> \o SubSeq(rest, ahead + 1, Len(rest))

\* the list get_standings returns: sorted, with rank = position
RankedStandings(db, found) ==
    LET sorted == SortStandings(calculate_standings(db, found))
    IN [i \in 1..Len(sorted) |->
           [participant_id |-> sorted[i].participant_id,
            group_number |-> sorted[i].group_number,
            played |-> sorted[i].played, wins |-> sorted[i].wins, losses |-> sorted[i].losses,
            sets_for |-> sorted[i].sets_for, sets_against |-> sorted[i].sets_against,
            points_for |-> sorted[i].points_for, points_against |-> sorted[i].points_against,
            rank |-> i]]

\* GET .../standings
get_standings ==
    /\ calls' = calls + 1
    /\ UNCHANGED handlers
    /\ \E found \in FindCompleted(matches) :
          resp' = [Response("get_standings", 200, None) EXCEPT
                      !.standings = RankedStandings(matches, found)]
    /\ UNCHANGED <<competition, matches, resources, idCtr, produced, propagated>>

\* the loop "for group_num in range(1, num_groups + 1)" of generate_knockout
RECURSIVE Qualifiers(_, _, _, _)
Qualifiers(standings, group_num, num_groups, advance_per_group) ==
    IF group_num > num_groups THEN <<>>
    ELSE LET inGroup(row) == row.group_number = group_num
             group_standings == SortStandings(SelectSeq(standings, inGroup))
             top == SubSeq(group_standings, 1,
                           IF Len(group_standings) < advance_per_group
                           THEN Len(group_standings) ELSE advance_per_group)
         IN [i \in 1..Len(top) |-> top[i].participant_id]
               \o Qualifiers(standings, group_num + 1, num_groups, advance_per_group)

\* the round offset of the knockout stage
KnockoutOffset == 100

\* POST .../generate-knockout
generate_knockout ==
    /\ calls' = calls + 1
    /\ UNCHANGED handlers
    /\ \E found \in FindCompleted(matches) :
          LET standings == calculate_standings(matches, found)
              qualifiers == Qualifiers(standings, 1, competition.num_groups,
                                       competition.advance_per_group)
          IN \E knockout_matches \in
                   generate_single_elimination_matches(qualifiers, idCtr, KnockoutOffset) :
                /\ matches' = IF knockout_matches # <<>>
                              THEN insert_many(matches, knockout_matches) ELSE matches
                /\ idCtr' = idCtr + Len(knockout_matches)
                /\ produced' = produced \cup {knockout_matches[k].id : k \in DOMAIN knockout_matches}
                /\ propagated' = [id \in DOMAIN matches' |->
                                     IF id \in DOMAIN matches THEN propagated[id]
                                     ELSE PropagatedAtCreation(knockout_matches)[id]]
                /\ resp' = [Response("generate_knockout", 200, None) EXCEPT
                               !.qualifiers = qualifiers]
    /\ UNCHANGED <<competition, resources>>

----------------------------------------------------------------------------
(* The standings and knockout specifications: a round_robin or             *)
(* groups_knockout competition of 2..MaxStandN participants is drawn, up   *)
(* to MaxPlayed results with scores are recorded, and the standings are    *)
(* read (SpecStandings) or the knockout stage is generated (SpecKnockout). *)

MaxStandN == 4     \* participants of the competition
MaxPlayed == 3     \* results recorded in one behaviour
MaxAdvance == 2    \* advance_per_group of the competition

InitStandings ==
    /\ competition \in {[participant_ids |-> [i \in 1..n |-> i],
                         format |-> f,
                         num_groups |-> g,
                         advance_per_group |-> a,
                         status |-> "draft"] :
                            n \in 2..MaxStandN, f \in {"round_robin", "groups_knockout"},
                            g \in 1..MaxGroups, a \in 1..MaxAdvance}
    /\ competition.format = "round_robin" => competition.num_groups = 1
    /\ matches = NoMatches
    /\ resources = [r \in {R1} |-> None]
    /\ idCtr = 0
    /\ resp = Response("none", 0, None)
    /\ produced = {}
    /\ propagated = NoMatches
    /\ calls = 0
    /\ handlers = NoHandlers

stand_generate ==
    /\ ~Drawn
    /\ \E seed_order \in SeededOrderInputs(competition.participant_ids) :
          generate_draw_advanced("manual", seed_order)

\* the scorelines submitted with a result: one set, won 11-5 or 11-9
ResultScores(winner_side) ==
    {<<IF winner_side = 1 THEN [score1 |-> 11, score2 |-> low]
                          ELSE [score1 |-> low, score2 |-> 11]>> : low \in {5, 9}}

\* a result with its scoreline, recorded through PUT .../matches/{match_id}
stand_result ==
    /\ Cardinality(Completed(matches)) < MaxPlayed
    /\ \E match_id \in DOMAIN matches :
          /\ Playable(match_id)
          /\ \E winner_side \in {1, 2} :
             \E scores \in ResultScores(winner_side) :
                update_match(match_id,
                             [status |-> NoStr,
                              scores |-> scores,
                              winner_id |-> IF winner_side = 1
                                            THEN matches[match_id].participant1_id
                                            ELSE matches[match_id].participant2_id,
                              resource_id |-> None])

stand_get_standings ==
    /\ Drawn
    /\ resp.op # "get_standings"
    /\ get_standings

NextStandings ==
    \/ stand_generate
    \/ stand_result
    \/ stand_get_standings

SpecStandings == InitStandings /\ [][NextStandings]_vars

\* a knockout stage has been generated
KnockoutDrawn == \E id \in DOMAIN matches : matches[id].round_number > KnockoutOffset

knockout_generate ==
    /\ Drawn
    /\ ~KnockoutDrawn
    /\ generate_knockout

NextKnockout ==
    \/ stand_generate
    \/ stand_result
    \/ knockout_generate

SpecKnockout == InitStandings /\ [][NextKnockout]_vars

\* the matches of group g, and the participants that play in it
GroupMatches(g) == {id \in DOMAIN matches : matches[id].group_number = g}
GroupParticipants(g) ==
    UNION {{matches[id].participant1_id, matches[id].participant2_id} : id \in GroupMatches(g)}

\* every group has played all its matches and has at least advance_per_group
\* participants
GroupStageComplete ==
    \A g \in 1..competition.num_groups :
       /\ GroupMatches(g) # {}
       /\ \A id \in GroupMatches(g) : matches[id].status = "completed"
       /\ Cardinality(GroupParticipants(g)) >= competition.advance_per_group

\* C13: generate-knockout takes, group by group, the first advance_per_group
\* rows of the group's sorted standings (num_groups * advance_per_group
\* qualifiers once every group has played its matches) and builds the
\* knockout bracket from that list in that order, as the seeded input of a
\* single-elimination draw.
C13_QualifiersSeedKnockout ==
    (resp.op = "generate_knockout" /\ resp.code = 200) =>
       LET qualifiers == resp.qualifiers
           count == Pow2(RoundsFor(Len(qualifiers))) - 1
           base == idCtr - count
           stored == [i \in 1..count |-> matches[base + i]]
       IN /\ \E found \in FindCompleted(matches) :
                qualifiers = Qualifiers(calculate_standings(matches, found), 1,
                                        competition.num_groups, competition.advance_per_group)
          /\ GroupStageComplete =>
                Len(qualifiers) = competition.num_groups * competition.advance_per_group
          /\ stored \in {generate_single_elimination_seeded(qualifiers, base, KnockoutOffset),
                         single_elimination_of_shuffled(qualifiers, base, KnockoutOffset)}

\* the completed matches between two participants that pid played
PlayedBy(pid) ==
    {id \in Completed(matches) :
        /\ matches[id].participant1_id # None
        /\ matches[id].participant2_id # None
        /\ pid \in {matches[id].participant1_id, matches[id].participant2_id}}

\* the points pid scored (own = TRUE) or conceded (own = FALSE) in match id
PointsIn(id, pid, own) ==
    LET m == matches[id]
        first == (m.participant1_id = pid) = own
    IN SumSeq([i \in 1..Len(m.scores) |->
                  IF first THEN m.scores[i].score1 ELSE m.scores[i].score2])

\* the total of PointsIn over the matches pid played
PointsOf(pid, own) ==
    LET ids == SetToSeq(PlayedBy(pid))
    IN SumSeq([i \in 1..Len(ids) |-> PointsIn(ids[i], pid, own)])

\* C14: the standings returned have one row per participant of a completed
\* match, with played, wins, losses and points folded from every completed
\* match the participant played; rows are sorted by wins descending, then
\* point differential descending, and rank is the 1-based position.  So in a
\* three-participant cycle (1 win, 1 loss each) distinct point differentials
\* fix the order.
C14_StandingsFoldAndRank ==
    (resp.op = "get_standings" /\ resp.code = 200) =>
       LET st == resp.standings
           diff(row) == row.points_for - row.points_against
       IN /\ {st[i].participant_id : i \in DOMAIN st}
                = {pid \in Participants : PlayedBy(pid) # {}}
          /\ \A i, j \in DOMAIN st : i # j => st[i].participant_id # st[j].participant_id
          /\ \A i \in DOMAIN st :
                LET pid == st[i].participant_id
                IN /\ st[i].rank = i
                   /\ st[i].played = Cardinality(PlayedBy(pid))
                   /\ st[i].wins = Cardinality({id \in PlayedBy(pid) : matches[id].winner_id = pid})
                   /\ st[i].losses = Cardinality({id \in PlayedBy(pid) : matches[id].winner_id # pid})
                   /\ st[i].points_for = PointsOf(pid, TRUE)
                   /\ st[i].points_against = PointsOf(pid, FALSE)
          /\ \A i, j \in DOMAIN st :
                i < j => \/ st[i].wins > st[j].wins
                         \/ st[i].wins = st[j].wins /\ diff(st[i]) >= diff(st[j])

\* the standings of a three-participant round robin in which everybody has
\* one win and one loss, ranked by three distinct point differentials
C14_Witness ==
    /\ resp.op = "get_standings"
    /\ competition.format = "round_robin"
    /\ NumParticipants = 3
    /\ Len(resp.standings) = 3
    /\ \A i \in 1..3 : resp.standings[i].wins = 1 /\ resp.standings[i].losses = 1
    /\ \A i \in 1..2 :
          resp.standings[i].points_for - resp.standings[i].points_against
             > resp.standings[i + 1].points_for - resp.standings[i + 1].points_against

\* C15: the standings returned are the same for every order in which the
\* completed matches can be enumerated, also for participants tied on wins
\* and on point differential.
C15_StandingsOrderIndependent ==
    (resp.op = "get_standings" /\ resp.code = 200) =>
       \A found \in FindCompleted(matches) :
          RankedStandings(matches, found) = resp.standings

----------------------------------------------------------------------------
(* The draw-building specification: on a competition of 1..MaxBuildN       *)
(* participants of any format, up to MaxCalls requests that build matches  *)
(* (generate-draw, generate-draw-advanced, generate-knockout) or record a  *)
(* result.                                                                 *)

MaxBuildN == 3     \* participants of the competition

InitBuild == InitWith(MaxBuildN)

build_draw == Budget /\ generate_draw

build_draw_advanced ==
    /\ Budget
    /\ \E seed_order \in SeededOrderInputs(competition.participant_ids) :
          generate_draw_advanced("manual", seed_order)

build_knockout == Budget /\ generate_knockout

build_result == Budget /\ stand_result

NextBuild ==
    \/ build_draw
    \/ build_draw_advanced
    \/ build_knockout
    \/ build_result

SpecBuild == InitBuild /\ [][NextBuild]_vars

\* C16: a draw-building request (generate-draw, generate-draw-advanced for
\* any format, or generate-knockout) that has fewer than 2 participants to
\* draw (the competition's participants, the qualifiers for the knockout)
\* is answered with the 400 error and leaves the stored matches unchanged.
C16_InsufficientParticipants ==
    [][(/\ calls' = calls + 1
        /\ \/ /\ resp'.op \in {"generate_draw", "generate_draw_advanced"}
              /\ NumParticipants < 2
           \/ /\ resp'.op = "generate_knockout"
              /\ Len(resp'.qualifiers) < 2)
         => (resp'.code = 400 /\ matches' = matches)]_vars

\* the manual seed orders submitted that are not a permutation of the
\* participants: the empty (or absent) order, an order with a participant
\* missing, an order with a participant twice
InvalidSeedOrders(participant_ids) ==
    {seed_order \in SeedOrderInputs(participant_ids) : seed_order \notin Perms(participant_ids)}

\* C17: a generate-draw-advanced request with seeding "manual" whose seed
\* order is not a permutation of the competition's participants (an id
\* duplicated or missing, or the order empty or absent) is answered with the
\* 400 error.
C17_InvalidSeedOrderRejected ==
    [][(\E seed_order \in InvalidSeedOrders(competition.participant_ids) :
           generate_draw_advanced("manual", seed_order))
         => resp'.code = 400]_vars

----------------------------------------------------------------------------
(* The administrative overrides: swap-participants and move-participant.   *)

SlotInputs == {"participant1", "participant2"}
SwapTypeInputs == {"participant1", "participant2", "both"}

\* match[f"{slot}_id"]
SlotOf(match, slot) ==
    IF slot = "participant1" THEN match.participant1_id ELSE match.participant2_id

\* update_one({"id": id}, {"$set": {f"{slot}_id": value}})
SetSlot(db, id, slot, value) ==
    IF slot = "participant1"
    THEN [db EXCEPT ![id].participant1_id = value]
    ELSE [db EXCEPT ![id].participant2_id = value]

\* POST .../swap-participants: both matches are read first, then match1 is
\* written with match2's participants and match2 with match1's
swap_participants(match1_id, match2_id, swap_type) ==
    /\ calls' = calls + 1
    /\ UNCHANGED handlers
    /\ IF ~Stored(matches, match1_id) \/ ~Stored(matches, match2_id)
       THEN Fails("swap_participants", 404)
       ELSE LET match1 == matches[match1_id]
                match2 == matches[match2_id]
                slots == IF swap_type = "both" THEN <<"participant1", "participant2">>
                         ELSE <<swap_type>>
                first == IF Len(slots) = 2
                         THEN SetSlot(SetSlot(matches, match1_id, slots[1], SlotOf(match2, slots[1])),
                                      match1_id, slots[2], SlotOf(match2, slots[2]))
                         ELSE SetSlot(matches, match1_id, slots[1], SlotOf(match2, slots[1]))
                second == IF Len(slots) = 2
                          THEN SetSlot(SetSlot(first, match2_id, slots[1], SlotOf(match1, slots[1])),
                                       match2_id, slots[2], SlotOf(match1, slots[2]))
                          ELSE SetSlot(first, match2_id, slots[1], SlotOf(match1, slots[1]))
            IN IF match1.status = "completed" \/ match2.status = "completed"
               THEN Fails("swap_participants", 400)
               ELSE /\ matches' = second
                    /\ resp' = Response("swap_participants", 200, None)
                    /\ UNCHANGED <<competition, resources, idCtr, produced, propagated>>

\* POST .../move-participant: the source slot is cleared, then the target
\* slot is set to the participant read from the source
move_participant(source_match_id, source_slot, target_match_id, target_slot) ==
    /\ calls' = calls + 1
    /\ UNCHANGED handlers
    /\ IF ~Stored(matches, source_match_id) \/ ~Stored(matches, target_match_id)
       THEN Fails("move_participant", 404)
       ELSE LET source_match == matches[source_match_id]
                participant_id == SlotOf(source_match, source_slot)
                cleared == SetSlot(matches, source_match_id, source_slot, None)
            IN IF source_match.status = "completed"
               THEN Fails("move_participant", 400)
               ELSE /\ matches' = SetSlot(cleared, target_match_id, target_slot, participant_id)
                    /\ resp' = Response("move_participant", 200, None)
                    /\ UNCHANGED <<competition, resources, idCtr, produced, propagated>>

----------------------------------------------------------------------------
(* The override specification: a single-elimination or round-robin         *)
(* competition of 2..MaxOverrideN participants is drawn in seed order;     *)
(* then, within MaxCalls requests, results are recorded (PUT match with a  *)
(* winner) and the administrator advances winners, swaps and moves         *)
(* participants.                                                           *)

MaxOverrideN == 4     \* participants of the competition

InitOverride ==
    /\ InitWith(MaxOverrideN)
    /\ Len(competition.participant_ids) >= 2
    /\ competition.format \in {"single_elimination", "round_robin"}

over_generate ==
    /\ ~Drawn
    /\ generate_draw_advanced("manual", competition.participant_ids)

\* recordResult: PUT .../matches/{match_id} with the winner
over_result ==
    /\ Budget
    /\ \E match_id \in DOMAIN matches :
          /\ Playable(match_id)
          /\ \E winner_id \in {matches[match_id].participant1_id, matches[match_id].participant2_id} :
                update_match(match_id, [status |-> NoStr, scores |-> <<>>,
                                        winner_id |-> winner_id, resource_id |-> None])

over_advance ==
    /\ Budget
    /\ \E match_id \in DOMAIN matches, winner_id \in ParticipantInputs :
          advance_winner(match_id, winner_id)

over_swap ==
    /\ Budget
    /\ \E match1_id, match2_id \in DOMAIN matches, swap_type \in SwapTypeInputs :
          swap_participants(match1_id, match2_id, swap_type)

over_move ==
    /\ Budget
    /\ \E source_match_id, target_match_id \in DOMAIN matches,
          source_slot, target_slot \in SlotInputs :
          move_participant(source_match_id, source_slot, target_match_id, target_slot)

NextOverride ==
    \/ over_generate
    \/ over_result
    \/ over_advance
    \/ over_swap
    \/ over_move

SpecOverride == InitOverride /\ [][NextOverride]_vars

IsCompleted(id) == matches[id].status = "completed"

\* C18: swap-participants and move-participant never change the slots of a
\* completed match: when a match whose slot the request writes (either match
\* of a swap, the source or the target of a move) is completed, the request
\* is answered with the 400 error and the stored matches are unchanged.
C18_CompletedSlotsFrozen ==
    [][/\ \A match1_id, match2_id \in DOMAIN matches, swap_type \in SwapTypeInputs :
             (/\ IsCompleted(match1_id) \/ IsCompleted(match2_id)
              /\ swap_participants(match1_id, match2_id, swap_type))
                => (resp'.code = 400 /\ matches' = matches)
       /\ \A source_match_id, target_match_id \in DOMAIN matches,
             source_slot, target_slot \in SlotInputs :
             (/\ IsCompleted(source_match_id) \/ IsCompleted(target_match_id)
              /\ move_participant(source_match_id, source_slot, target_match_id, target_slot))
                => (resp'.code = 400 /\ matches' = matches)]_vars

\* the step leaves every stored match outside named as it was
OthersKept(named) ==
    /\ DOMAIN matches' = DOMAIN matches
    /\ \A id \in DOMAIN matches \ named : matches'[id] = matches[id]

\* C19: the administrative overrides (advance-winner, swap-participants,
\* move-participant) do not propagate: the step of an override changes no
\* match but the ones its request names, so the slots of a next match
\* reached through next_match_id stay as they were and no propagation is
\* counted; only a recorded result writes a winner into a next match.
C19_OverridesDoNotPropagate ==
    [][/\ \A match_id \in DOMAIN matches, winner_id \in ParticipantInputs :
             advance_winner(match_id, winner_id)
                => (OthersKept({match_id}) /\ propagated' = propagated)
       /\ \A match1_id, match2_id \in DOMAIN matches, swap_type \in SwapTypeInputs :
             swap_participants(match1_id, match2_id, swap_type)
                => (OthersKept({match1_id, match2_id}) /\ propagated' = propagated)
       /\ \A source_match_id, target_match_id \in DOMAIN matches,
             source_slot, target_slot \in SlotInputs :
             move_participant(source_match_id, source_slot, target_match_id, target_slot)
                => (OthersKept({source_match_id, target_match_id}) /\ propagated' = propagated)]_vars

----------------------------------------------------------------------------
(* Result handlers running concurrently.  update_match and advance_winner   *)
(* are coroutines: every await on the database is a point where another    *)
(* request can run.  A handler takes one step per database operation:      *)
(*   update_match:   find match, find next match, write next match's slot, *)
(*                   write the match (winner, completed);                  *)
(*   advance_winner: find match, write the match, find next match, write   *)
(*                   next match's slot.                                    *)
(* pc is the step the handler takes next.                                  *)

HandlerOps == {"update_match", "advance_winner"}

\* the handler's response once its last step is taken
HandlerDone(h) ==
    resp' = [Response(handlers[h].op, 200, handlers[h].match_id) EXCEPT
                !.winner_id = handlers[h].winner_id]

\* find_one on the match: the request is received and the match read
handler_find_match(h, op, match_id, winner_id) ==
    /\ handlers[h].pc = "idle"
    /\ calls' = calls + 1
    /\ IF ~Stored(matches, match_id)
       THEN /\ resp' = Response(op, 404, None)
            /\ handlers' = [handlers EXCEPT ![h].pc = "done", ![h].op = op]
       ELSE IF /\ op = "advance_winner"
               /\ winner_id \notin {matches[match_id].participant1_id,
                                    matches[match_id].participant2_id}
       THEN /\ resp' = Response(op, 400, None)
            /\ handlers' = [handlers EXCEPT ![h].pc = "done", ![h].op = op]
       ELSE /\ handlers' = [handlers EXCEPT ![h] =
                  [pc |-> IF op = "update_match" THEN "find_next" ELSE "set_match",
                   op |-> op, match_id |-> match_id, winner_id |-> winner_id,
                   next_match_id |-> matches[match_id].next_match_id,
                   resource_id |-> matches[match_id].resource_id,
                   next_participant1_id |-> None, next_participant2_id |-> None,
                   built |-> <<>>]]
            /\ UNCHANGED resp
    /\ UNCHANGED <<competition, matches, resources, idCtr, produced, propagated>>

\* find_one on the next match; without a next match the slot write is skipped
handler_find_next(h) ==
    /\ handlers[h].pc = "find_next"
    /\ LET after == IF handlers[h].op = "update_match" THEN "set_match" ELSE "done"
           next_match_id == handlers[h].next_match_id
       IN IF next_match_id # None /\ Stored(matches, next_match_id)
          THEN /\ handlers' = [handlers EXCEPT
                     ![h].pc = "write_next",
                     ![h].next_participant1_id = matches[next_match_id].participant1_id,
                     ![h].next_participant2_id = matches[next_match_id].participant2_id]
               /\ UNCHANGED resp
          ELSE /\ handlers' = [handlers EXCEPT ![h].pc = after]
               /\ IF after = "done" THEN HandlerDone(h) ELSE UNCHANGED resp
    /\ UNCHANGED <<competition, matches, resources, idCtr, produced, propagated, calls>>

\* update_one on the next match: the slot is chosen from what was read
handler_write_next(h) ==
    /\ handlers[h].pc = "write_next"
    /\ LET after == IF handlers[h].op = "update_match" THEN "set_match" ELSE "done"
           next_match_id == handlers[h].next_match_id
           written == IF ~Stored(matches, next_match_id) THEN matches
                      ELSE IF handlers[h].next_participant1_id = None
                      THEN [matches EXCEPT ![next_match_id].participant1_id = handlers[h].winner_id]
                      ELSE IF handlers[h].next_participant2_id = None
                      THEN [matches EXCEPT ![next_match_id].participant2_id = handlers[h].winner_id]
                      ELSE matches
       IN /\ matches' = written
          /\ propagated' = IF Stored(matches, handlers[h].match_id)
                           THEN CountPropagation(matches, written, handlers[h].match_id)
                           ELSE propagated
          /\ handlers' = [handlers EXCEPT ![h].pc = after]
          /\ IF after = "done" THEN HandlerDone(h) ELSE UNCHANGED resp
    /\ UNCHANGED <<competition, resources, idCtr, produced, calls>>

\* update_one on the match: winner_id and status "completed"; update_match
\* clears the resource the match was read with just before
handler_set_match(h) ==
    /\ handlers[h].pc = "set_match"
    /\ LET after == IF handlers[h].op = "update_match" THEN "done" ELSE "find_next"
           match_id == handlers[h].match_id
       IN /\ matches' = IF Stored(matches, match_id)
                        THEN [matches EXCEPT ![match_id].winner_id = handlers[h].winner_id,
                                             ![match_id].status = "completed"]
                        ELSE matches
          /\ resources' = IF handlers[h].op = "update_match" /\ handlers[h].resource_id # None
                          THEN [resources EXCEPT ![handlers[h].resource_id] = None]
                          ELSE resources
          /\ handlers' = [handlers EXCEPT ![h].pc = after]
          /\ IF after = "done" THEN HandlerDone(h) ELSE UNCHANGED resp
    /\ UNCHANGED <<competition, idCtr, produced, propagated, calls>>

----------------------------------------------------------------------------
(* The concurrent specification: a single-elimination competition of       *)
(* 2..MaxConcN participants is drawn in seed order, then MaxHandlers       *)
(* handlers each serve one result request (update_match or advance_winner) *)
(* for a match that is ready to be played, their steps interleaved.        *)

MaxConcN == 4     \* participants of the competition

InitConcurrent ==
    /\ InitWith(MaxConcN)
    /\ Len(competition.participant_ids) >= 2
    /\ competition.format = "single_elimination"

conc_generate ==
    /\ ~Drawn
    /\ generate_draw_advanced("manual", competition.participant_ids)

conc_find_match ==
    \E h \in 1..MaxHandlers, op \in HandlerOps, match_id \in DOMAIN matches :
       /\ Playable(match_id)
       /\ \E winner_id \in {matches[match_id].participant1_id, matches[match_id].participant2_id} :
             handler_find_match(h, op, match_id, winner_id)

conc_find_next == \E h \in 1..MaxHandlers : handler_find_next(h)

conc_write_next == \E h \in 1..MaxHandlers : handler_write_next(h)

conc_set_match == \E h \in 1..MaxHandlers : handler_set_match(h)

NextConcurrent ==
    \/ conc_generate
    \/ conc_find_match
    \/ conc_find_next
    \/ conc_write_next
    \/ conc_set_match

SpecConcurrent == InitConcurrent /\ [][NextConcurrent]_vars

\* handlers g and h have completed the two feeder matches of one next match
FedTogether(g, h) ==
    /\ g # h
    /\ handlers[g].pc = "done"
    /\ handlers[h].pc = "done"
    /\ handlers[g].match_id # None
    /\ handlers[h].match_id # None
    /\ handlers[g].match_id # handlers[h].match_id
    /\ handlers[g].next_match_id # None
    /\ handlers[g].next_match_id = handlers[h].next_match_id

\* C20: when two handlers running concurrently have completed the two
\* feeder matches of the same next match, whatever the interleaving of their
\* reads of the next match and their writes of a slot, the next match holds
\* both winners, one in each slot.
C20_ConcurrentFeedersKeepBothWinners ==
    \A g, h \in 1..MaxHandlers :
       FedTogether(g, h) =>
          LET next_match == matches[handlers[g].next_match_id]
          IN \/ /\ next_match.participant1_id = handlers[g].winner_id
                /\ next_match.participant2_id = handlers[h].winner_id
             \/ /\ next_match.participant1_id = handlers[h].winner_id
                /\ next_match.participant2_id = handlers[g].winner_id

----------------------------------------------------------------------------
(* Draw generation running concurrently.  generate_draw and                *)
(* generate_draw_advanced await the database four times: find the          *)
(* competition, delete_many, insert_many, update the competition status.   *)
(* The matches are built between delete_many and insert_many without an    *)
(* await, so building is part of the delete step.                          *)

DrawOps == {"generate_draw", "generate_draw_advanced"}

\* find_one on the competition: the request is received and validated
handler_find_competition(h, op) ==
    /\ handlers[h].pc = "idle"
    /\ calls' = calls + 1
    /\ IF Len(competition.participant_ids) < 2
       THEN /\ resp' = Response(op, 400, None)
            /\ handlers' = [handlers EXCEPT ![h].pc = "done", ![h].op = op]
       ELSE /\ handlers' = [handlers EXCEPT ![h].pc = "delete_many", ![h].op = op]
            /\ UNCHANGED resp
    /\ UNCHANGED <<competition, matches, resources, idCtr, produced, propagated>>

\* delete_many, then the new matches are built (in seed order for
\* generate_draw_advanced, from a shuffle for generate_draw)
handler_delete_many(h) ==
    /\ handlers[h].pc = "delete_many"
    /\ LET participant_ids == competition.participant_ids
           format_type == competition.format
       IN \E ms \in
             IF format_type = "round_robin"
             THEN {generate_round_robin_matches(participant_ids, idCtr)}
             ELSE IF format_type = "single_elimination"
             THEN IF handlers[h].op = "generate_draw"
                  THEN generate_single_elimination_matches(participant_ids, idCtr, 0)
                  ELSE {generate_single_elimination_seeded(participant_ids, idCtr, 0)}
             ELSE {<<>>} :
             /\ handlers' = [handlers EXCEPT ![h].pc = "insert_many", ![h].built = ms]
             /\ idCtr' = idCtr + Len(ms)
    /\ matches' = delete_many(matches)
    /\ propagated' = NoMatches
    /\ UNCHANGED <<competition, resources, resp, produced, calls>>

\* insert_many of the matches built
handler_insert_many(h) ==
    /\ handlers[h].pc = "insert_many"
    /\ LET ms == handlers[h].built
       IN /\ matches' = IF ms # <<>> THEN insert_many(matches, ms) ELSE matches
          /\ produced' = {ms[k].id : k \in DOMAIN ms}
          /\ propagated' = [id \in DOMAIN matches' |->
                               IF id \in produced' THEN PropagatedAtCreation(ms)[id]
                               ELSE propagated[id]]
    /\ handlers' = [handlers EXCEPT ![h].pc = "set_status"]
    /\ UNCHANGED <<competition, resources, idCtr, resp, calls>>

\* update_one on the competition: status "draw_generated"
handler_set_status(h) ==
    /\ handlers[h].pc = "set_status"
    /\ competition' = [competition EXCEPT !.status = "draw_generated"]
    /\ handlers' = [handlers EXCEPT ![h].pc = "done"]
    /\ resp' = Response(handlers[h].op, 200, None)
    /\ UNCHANGED <<matches, resources, idCtr, produced, propagated, calls>>

----------------------------------------------------------------------------
(* The regeneration specification: a round-robin or single-elimination     *)
(* competition of 2..MaxRegenN participants has its first draw generated,  *)
(* then MaxHandlers handlers each serve one request, a draw generation or  *)
(* a result (PUT match with a winner), their steps interleaved.            *)

MaxRegenN == 3     \* participants of the competition

InitRegen ==
    /\ InitWith(MaxRegenN)
    /\ Len(competition.participant_ids) >= 2
    /\ competition.format \in {"round_robin", "single_elimination"}

regen_first_draw ==
    /\ ~Drawn
    /\ generate_draw_advanced("manual", competition.participant_ids)

regen_find_competition ==
    /\ Drawn
    /\ \E h \in 1..MaxHandlers, op \in DrawOps : handler_find_competition(h, op)

regen_delete_many == \E h \in 1..MaxHandlers : handler_delete_many(h)

regen_insert_many == \E h \in 1..MaxHandlers : handler_insert_many(h)

regen_set_status == \E h \in 1..MaxHandlers : handler_set_status(h)

regen_find_match ==
    \E h \in 1..MaxHandlers, match_id \in DOMAIN matches :
       /\ Playable(match_id)
       /\ \E winner_id \in {matches[match_id].participant1_id, matches[match_id].participant2_id} :
             handler_find_match(h, "update_match", match_id, winner_id)

regen_find_next == \E h \in 1..MaxHandlers : handler_find_next(h)

regen_write_next == \E h \in 1..MaxHandlers : handler_write_next(h)

regen_set_match == \E h \in 1..MaxHandlers : handler_set_match(h)

NextRegen ==
    \/ regen_first_draw
    \/ regen_find_competition
    \/ regen_delete_many
    \/ regen_insert_many
    \/ regen_set_status
    \/ regen_find_match
    \/ regen_find_next
    \/ regen_write_next
    \/ regen_set_match

SpecRegen == InitRegen /\ [][NextRegen]_vars

\* no handler is between two of its steps
Quiescent == \A h \in 1..MaxHandlers : handlers[h].pc \in {"idle", "done"}

\* handler h has generated a draw to the end
DrewToEnd(h) ==
    /\ handlers[h].op \in DrawOps
    /\ handlers[h].pc = "done"
    /\ handlers[h].built # <<>>

BuiltIds(h) == {handlers[h].built[k].id : k \in DOMAIN handlers[h].built}

\* a result handler addressed match id or wrote into it as a next match
ResultTouched(id) ==
    \E h \in 1..MaxHandlers :
       /\ handlers[h].op = "update_match"
       /\ id \in {handlers[h].match_id, handlers[h].next_match_id}

\* C21: draw regeneration is atomic with respect to the requests running
\* concurrently: once every handler has finished and a draw was generated,
\* the stored matches are exactly the matches of one generation, and a match
\* no result request addressed is stored as it was generated.
C21_RegenerationAtomic ==
    (Quiescent /\ \E h \in 1..MaxHandlers : DrewToEnd(h)) =>
       \E h \in 1..MaxHandlers :
          /\ DrewToEnd(h)
          /\ DOMAIN matches = BuiltIds(h)
          /\ \A k \in DOMAIN handlers[h].built :
                LET m == handlers[h].built[k]
                IN ~ResultTouched(m.id) => matches[m.id] = m

----------------------------------------------------------------------------
(* The draw-level specification with its scheduling: a match that has two  *)
(* participants is eventually completed.                                   *)

SpecDrawLive == InitDraw /\ [][NextDraw]_vars /\ WF_vars(play_match)

\* the final of the stored bracket: the match no other match follows
IsFinal(id) == matches[id].next_match_id = None

\* every match after the first round has its two participants and the final
\* has a winner
BracketPlayed ==
    /\ \A id \in DOMAIN matches :
          matches[id].round_number > 1 =>
             (matches[id].participant1_id # None /\ matches[id].participant2_id # None)
    /\ \E id \in DOMAIN matches : IsFinal(id) /\ matches[id].winner_id # None

\* C22: a generated single-elimination bracket is played to a champion:
\* when every match that has two participants is eventually completed,
\* every later-round match eventually receives two participants and the
\* final eventually has a winner.
C22_BracketPlaysToChampion ==
    (Drawn /\ competition.format = "single_elimination") ~> BracketPlayed

\* C23: a completed match that has a winner and a next match has its winner
\* in one of the two slots of that next match.
C23_WinnerInNextMatch ==
    \A id \in DOMAIN matches :
       (/\ matches[id].status = "completed"
        /\ matches[id].winner_id # None
        /\ matches[id].next_match_id # None
        /\ Stored(matches, matches[id].next_match_id))
          => matches[id].winner_id \in {matches[matches[id].next_match_id].participant1_id,
                                        matches[matches[id].next_match_id].participant2_id}

\* C24: a draw request that fails validation (fewer than 2 participants, a
\* manual seed order that is rejected) leaves the stored matches and the
\* competition, its status included, as they were before the request.
C24_FailedDrawChangesNothing ==
    [][(/\ calls' = calls + 1
        /\ resp'.op \in GenerateOps
        /\ resp'.code = 400)
         => (matches' = matches /\ competition' = competition)]_vars

\* the participant drawn with seed s: seeds are carried by the first round
SeedHolder(s) ==
    LET id == CHOOSE id \in FirstRoundMatches : s \in {matches[id].seed1, matches[id].seed2}
    IN IF matches[id].seed1 = s THEN matches[id].participant1_id
       ELSE matches[id].participant2_id

\* the first-round match of seed s
SeedMatch(s) ==
    CHOOSE id \in FirstRoundMatches : s \in {matches[id].seed1, matches[id].seed2}

\* the matches from id up to the final along next_match_id
RECURSIVE PathFrom(_)
PathFrom(id) ==
    IF matches[id].next_match_id # None /\ Stored(matches, matches[id].next_match_id)
    THEN {id} \cup PathFrom(matches[id].next_match_id)
    ELSE {id}

\* C25: in a seeded bracket whose size is the number of participants (a
\* power of two), seed 1 meets seed size in round 1, and seeds 1 and 2 are
\* in opposite halves: the only match on both their ways to the final is the
\* final, and whenever the two are the participants of a match it is the
\* final.
C25_TopSeedsMeetInFinal ==
    (Drawn /\ NumParticipants = BracketSize) =>
       /\ {matches[SeedMatch(1)].seed1, matches[SeedMatch(1)].seed2} = {1, BracketSize}
       /\ \A id \in PathFrom(SeedMatch(1)) \cap PathFrom(SeedMatch(2)) : IsFinal(id)
       /\ \A id \in DOMAIN matches :
             {matches[id].participant1_id, matches[id].participant2_id}
                = {SeedHolder(1), SeedHolder(2)} => IsFinal(id)

\* a bracket of eight played until seeds 1 and 2 meet in the final
C25_Witness ==
    /\ Drawn
    /\ NumParticipants = 8
    /\ \E id \in DOMAIN matches :
          /\ IsFinal(id)
          /\ matches[id].round_number = 3
          /\ {matches[id].participant1_id, matches[id].participant2_id}
                = {SeedHolder(1), SeedHolder(2)}

----------------------------------------------------------------------------
(* The structure specification: a competition of 2..MaxTreeN participants  *)
(* of any format is drawn by either endpoint, and a single-elimination     *)
(* bracket is played.                                                      *)

MaxTreeN == 4     \* participants of the competition

InitTree ==
    /\ InitWith(MaxTreeN)
    /\ Len(competition.participant_ids) >= 2

tree_generate == ~Drawn /\ generate_draw

tree_generate_advanced ==
    /\ ~Drawn
    /\ \E seed_order \in SeededOrderInputs(competition.participant_ids) :
          generate_draw_advanced("manual", seed_order)

tree_play == play_match

NextTree ==
    \/ tree_generate
    \/ tree_generate_advanced
    \/ tree_play

SpecTree == InitTree /\ [][NextTree]_vars

EliminationFormats == {"single_elimination", "double_elimination"}

\* the matches whose next_match_id is id
Feeders(id) == {x \in DOMAIN matches : matches[x].next_match_id = id}

\* the losers-bracket placeholders and the grand final of a double elimination
Placeholders == {id \in DOMAIN matches : matches[id].bracket_type \in {"losers", "final"}}

\* the next_match_id edges among the matches of bracket form a tree rooted
\* at the final: one match, of the last round, has no next match, every
\* other one points to a match of bracket in the next round, and every match
\* after round 1 has exactly two feeders
TreeRootedAtFinal(bracket) ==
    /\ Cardinality({id \in bracket : matches[id].next_match_id = None}) = 1
    /\ \A id \in bracket :
          /\ matches[id].next_match_id = None
                => matches[id].round_number = RoundsFor(NumParticipants)
          /\ matches[id].next_match_id # None
                => /\ matches[id].next_match_id \in bracket
                   /\ matches[matches[id].next_match_id].round_number
                         = matches[id].round_number + 1
          /\ matches[id].round_number > 1 => Cardinality(Feeders(id)) = 2
          /\ matches[id].round_number = 1 => Feeders(id) = {}

\* C26 as stated: in every generated elimination draw all the matches form
\* a tree rooted at the final; round-robin and group matches have no
\* next_match_id.
C26_NextMatchTree ==
    Drawn =>
       IF competition.format \in EliminationFormats
       THEN TreeRootedAtFinal(DOMAIN matches)
       ELSE \A id \in DOMAIN matches : matches[id].next_match_id = None

\* C26: in a generated elimination draw the matches of the bracket (all the
\* matches of a single elimination, the winners bracket of a double
\* elimination) form a tree rooted at the final of the last round; the
\* losers-bracket placeholders and the grand final of a double elimination
\* have no next match and no feeder; round-robin and group matches have no
\* next_match_id.
C26_BracketTree ==
    Drawn =>
       IF competition.format \in EliminationFormats
       THEN /\ TreeRootedAtFinal(DOMAIN matches \ Placeholders)
            /\ \A id \in Placeholders :
                  matches[id].next_match_id = None /\ Feeders(id) = {}
            /\ competition.format = "single_elimination" => Placeholders = {}
       ELSE \A id \in DOMAIN matches : matches[id].next_match_id = None

\* a drawn bracket of two rounds: two first-round matches feeding the final
C26_Witness ==
    /\ Drawn
    /\ competition.format \in EliminationFormats
    /\ NumParticipants = 4
    /\ \E id \in DOMAIN matches :
          /\ matches[id].round_number = 2
          /\ matches[id].next_match_id = None
          /\ Cardinality(Feeders(id)) = 2

----------------------------------------------------------------------------
(* The double-elimination specification: a double-elimination competition  *)
(* of 2..MaxDoubleN participants is drawn by either endpoint.              *)

MaxDoubleN == 5     \* participants of the competition

InitDouble ==
    /\ InitWith(MaxDoubleN)
    /\ Len(competition.participant_ids) >= 2
    /\ competition.format = "double_elimination"

double_generate == ~Drawn /\ generate_draw

double_generate_advanced ==
    /\ ~Drawn
    /\ \E seed_order \in SeededOrderInputs(competition.participant_ids) :
          generate_draw_advanced("manual", seed_order)

NextDouble ==
    \/ double_generate
    \/ double_generate_advanced

SpecDouble == InitDouble /\ [][NextDouble]_vars

WinnersBracket == DOMAIN matches \ Placeholders
LosersBracket == {id \in DOMAIN matches : matches[id].bracket_type = "losers"}
GrandFinals == {id \in DOMAIN matches : matches[id].bracket_type = "final"}

\* the first-round matches of the winners bracket
WinnersFirstRound == {id \in WinnersBracket : matches[id].round_number = 1}

\* C27: a double-elimination draw is the winners bracket, built as a
\* single-elimination bracket (bracket size - 1 matches in a tree rooted at
\* its final), plus max(1, firstRoundMatchCount / 2) losers-bracket matches,
\* plus exactly one grand final, for every n >= 2.
C27_DoubleEliminationShape ==
    Drawn =>
       /\ Cardinality(WinnersBracket) = BracketSize - 1
       /\ TreeRootedAtFinal(WinnersBracket)
       /\ Cardinality(LosersBracket) = Max(1, Cardinality(WinnersFirstRound) \div 2)
       /\ Cardinality(GrandFinals) = 1

\* the group-stage and the knockout-stage matches stored
GroupStageMatches == {id \in DOMAIN matches : matches[id].group_number # None}
KnockoutMatches == {id \in DOMAIN matches : matches[id].group_number = None}

\* C28: in a groups-then-knockout competition every group match has round 1
\* and a group number, and every knockout match has no group number and a
\* round number above the offset 100, so no knockout match shares its round
\* number with a group match.
C28_KnockoutRoundsOffset ==
    competition.format = "groups_knockout" =>
       /\ \A id \in GroupStageMatches :
             /\ matches[id].round_number = 1
             /\ matches[id].group_number \in 1..competition.num_groups
       /\ \A id \in KnockoutMatches : matches[id].round_number > KnockoutOffset
       /\ \A g \in GroupStageMatches, k \in KnockoutMatches :
             matches[g].round_number # matches[k].round_number

\* a group stage with results and the knockout stage generated from it
C28_Witness ==
    /\ competition.format = "groups_knockout"
    /\ \E id \in GroupStageMatches : matches[id].status = "completed"
    /\ \E id \in KnockoutMatches :
          /\ matches[id].round_number = KnockoutOffset + 1
          /\ matches[id].participant1_id # None
          /\ matches[id].participant2_id # None

----------------------------------------------------------------------------
(* The repeated-knockout specification: a groups_knockout competition of  *)
(* 2..MaxRepeatN participants is drawn in seed order, up to MaxPlayed      *)
(* results are recorded (group or knockout matches), and the knockout      *)
(* stage is generated, up to MaxKnockouts times, once a result exists.     *)

MaxRepeatN == 3      \* participants of the competition
MaxKnockouts == 2    \* generate-knockout requests in one behaviour

InitRepeat ==
    /\ InitStandings
    /\ Len(competition.participant_ids) <= MaxRepeatN
    /\ competition.format = "groups_knockout"

repeat_generate ==
    /\ ~Drawn
    /\ generate_draw_advanced("manual", competition.participant_ids)

repeat_result == stand_result

repeat_knockout ==
    /\ Drawn
    /\ Completed(matches) # {}
    /\ Cardinality({id \in DOMAIN matches :
                       /\ matches[id].round_number > KnockoutOffset
                       /\ matches[id].next_match_id = None}) < MaxKnockouts
    /\ generate_knockout

NextRepeat ==
    \/ repeat_generate
    \/ repeat_result
    \/ repeat_knockout

SpecRepeat == InitRepeat /\ [][NextRepeat]_vars

\* the stored matches of the group stage only
GroupStageOnly == [id \in GroupStageMatches |-> matches[id]]

\* the finals of the knockout brackets stored
KnockoutFinals == {id \in KnockoutMatches :
                      /\ matches[id].round_number > KnockoutOffset
                      /\ matches[id].next_match_id = None}

\* C29: generating the knockout stage again does not leave a second
\* knockout bracket next to the first (at most one knockout final is
\* stored), and the qualifiers a generation selected are those of the
\* standings of the group-stage matches alone.
C29_KnockoutIdempotent ==
    /\ Cardinality(KnockoutFinals) <= 1
    /\ (resp.op = "generate_knockout" /\ resp.code = 200) =>
          \E found \in FindCompleted(GroupStageOnly) :
             resp.qualifiers = Qualifiers(calculate_standings(GroupStageOnly, found), 1,
                                          competition.num_groups,
                                          competition.advance_per_group)

\* C30: no stored match has the same participant in both of its slots.
C30_NoSelfMatch ==
    \A id \in DOMAIN matches :
       matches[id].participant1_id # None
          => matches[id].participant1_id # matches[id].participant2_id

====
